---- MODULE Spec2Model ----
(***************************************************************************)
(* LivePlayerStats plugin: the update orchestrator of manager.py.         *)
(*                                                                         *)
(* Two kinds of threads run the code: the display thread (thread 0),      *)
(* which calls update() and display(), and the background fetch tasks     *)
(* (threads 1..MaxThreads) started by _start_background_fetch.  Every     *)
(* statement that reads or writes a field shared between the threads is   *)
(* one step, so that all interleavings of the threads are explored.       *)
(***************************************************************************)
EXTENDS Integers, Sequences, FiniteSets, TLC

\* ---------------------------------------------------------------- bounds
NumLeagues == 2        \* how many of the league keys the config may enable
MaxGames == 1          \* most live games one league reports
MaxTime == 3           \* the clock runs from 1 to MaxTime
MaxThreads == 2        \* thread slots available to background tasks
UpdateInterval == 1    \* data_settings.update_interval, in clock units
DisplayWidth == 1      \* scroll_helper.display_width, in scroll units
ItemWidth == 2         \* width of one content item, in scroll units
MaxEvents == 2         \* most events one scoreboard lists
MaxPlayers == 3        \* most players one team's boxscore lists
MaxRoster == 11        \* the players of a full roster
MaxNameLen == 11       \* most characters of a player name
MaxAthletes == 2       \* most athletes one football stat section lists
MaxCards == 4          \* most games of a batch whose rendering is looked at

\* ------------------------------------------------------------ vocabulary
LeagueKeys == <<"nba", "nfl", "ncaam", "ncaaf">>

ConfigurableLeagues == {LeagueKeys[i] : i \in 1..NumLeagues}

MainThread == 0
BgThreads == 1..MaxThreads
Threads == {MainThread} \cup BgThreads
LockFree == -1

\* What a feed reports when the request or the parsing of its answer raises.
FeedError == -1

\* Python's None for an optional list: the empty set; a list b is {b}.
None == {}
Some(b) == {b}

VARIABLES
    league_rotation_order,   \* self.league_rotation_order
    current_league_index,    \* self.current_league_index (0-based)
    games_data,              \* self.games_data, the displayed batch
    last_data_update,        \* self.last_data_update
    needs_initial_update,    \* self.needs_initial_update
    pending_games_data,      \* self._pending_games_data (None or a batch)
    pending_data_ready,      \* self._pending_data_ready
    fetch_in_progress,       \* self._fetch_in_progress
    fetch_lock,              \* self._fetch_lock: LockFree or the holder
    scroll_position,         \* scroll_helper.scroll_position
    total_scroll_width,      \* scroll_helper: width of the scrolling image
    content_items,           \* what create_scrolling_image was last given
    now,                     \* time.time()
    upstream,                \* live games each league's feed reports now
    pc_main,                 \* position of the display thread
    current_time,            \* update(): local current_time
    time_since_update,       \* update(): local time_since_update
    pc_bg,                   \* position of each background task
    bg_live_games,           \* _background_fetch_data: local live_games
    log_cond,                \* _background_fetch_data: line 197's condition
    fg,                      \* _fetch_games: one frame per thread
    tick_games,              \* history: games_data when the tick began
    ready_reads,             \* history: reads of the ready flag this tick
    sync_fetches,            \* history: _fetch_games calls made by update()
    pc_fetcher,              \* position of a DataFetcher call
    args,                    \* the arguments of the call
    scoreboard,              \* the scoreboard the feed answers with, or None
    returned,                \* fetch_live_games: None, or the list returned
    requests,                \* upstream requests the call has issued
    player_stats,            \* the players of the team's boxscore
    leaders                  \* leader extraction: None, or the dict returned

plugin == <<league_rotation_order, current_league_index, games_data,
            last_data_update, needs_initial_update, pending_games_data,
            pending_data_ready, fetch_in_progress, fetch_lock,
            scroll_position, total_scroll_width, content_items, now, upstream,
            pc_main, current_time, time_since_update, pc_bg, bg_live_games,
            log_cond, fg, tick_games, ready_reads, sync_fetches>>

extraction == <<player_stats, leaders>>

fetcher == <<pc_fetcher, args, scoreboard, returned, requests, extraction>>

vars == <<plugin, fetcher>>

orchestrator == <<current_league_index, games_data, last_data_update,
                  needs_initial_update, pending_games_data,
                  pending_data_ready, fetch_in_progress>>
scroller == <<scroll_position, total_scroll_width, content_items>>
update_locals == <<current_time, time_since_update>>
bg_locals == <<bg_live_games, log_cond>>
history == <<tick_games, ready_reads, sync_fetches>>

\* ------------------------------------------------- _build_rotation_order
RECURSIVE SelectByPriority(_, _, _, _)
SelectByPriority(enabled, priority, p, i) ==
    IF i > Len(LeagueKeys) THEN <<>>
    ELSE IF LeagueKeys[i] \in enabled /\ priority[LeagueKeys[i]] = p
         THEN <<LeagueKeys[i]>> \o SelectByPriority(enabled, priority, p, i + 1)
         ELSE SelectByPriority(enabled, priority, p, i + 1)

RECURSIVE SortByPriority(_, _, _)
SortByPriority(enabled, priority, p) ==
    IF p > NumLeagues THEN <<>>
    ELSE SelectByPriority(enabled, priority, p, 1)
         \o SortByPriority(enabled, priority, p + 1)

\* The enabled leagues in the order of LeagueKeys, stably sorted by priority
\* (priorities are drawn from 1..NumLeagues, which gives every order and tie).
BuildRotationOrder(enabled, priority) == SortByPriority(enabled, priority, 1)

\* ------------------------------------------------------ fetch_live_games
\* A batch of n live games of a league, as fetch_live_games returns it.
GameBatch(league, n) ==
    [i \in 1..n |-> [league |-> league, id |-> i, drawable |-> TRUE]]

\* A fetcher that answers a failed request with a stale game.
fetch_live_games_stale(league) ==
    {IF n = FeedError THEN GameBatch(league, 1) ELSE GameBatch(league, n) :
        n \in upstream[league]}

\* What DataFetcher.fetch_live_games may hand the orchestrator for a league:
\* the list of its live games, and the empty list when the request or the
\* parsing raised (lines 128-130 and 708-710 catch everything).
\* upstream[league] holds what the feed may report: a number of live games or
\* FeedError.
fetch_live_games(league) ==
    {IF n = FeedError THEN <<>> ELSE GameBatch(league, n) : n \in upstream[league]}

\* ----------------------------------------------------------- _fetch_games
BlankFrame == [pc |-> "none", attempts |-> 0, live_games |-> <<>>,
               start |-> 0, calls |-> <<>>]

CallFetchGames == [BlankFrame EXCEPT !.pc = "first"]

\* A rotation that moves on to the next league after every call, even when
\* the current league had live games.
FetchFirstThenAdvance(t) ==
    /\ fg[t].pc = "first"
    /\ LET current == league_rotation_order[current_league_index + 1]
       IN \E live_games \in fetch_live_games(current) :
             /\ fg' = [fg EXCEPT ![t] =
                         [pc |-> IF live_games # <<>> THEN "ret" ELSE "loop",
                          attempts |-> 0,
                          live_games |-> live_games,
                          start |-> current_league_index,
                          calls |-> <<current>>]]
             /\ current_league_index' =
                   IF live_games # <<>>
                   THEN (current_league_index + 1) % Len(league_rotation_order)
                   ELSE current_league_index
    /\ UNCHANGED <<league_rotation_order, games_data, last_data_update,
                   needs_initial_update, pending_games_data,
                   pending_data_ready, fetch_in_progress, fetch_lock,
                   scroller, now, upstream, pc_main, update_locals, pc_bg,
                   bg_locals, history>>

\* Lines 217-233 and the entry of the loop: try the current league.
FetchFirst(t) ==
    /\ fg[t].pc = "first"
    /\ LET current == league_rotation_order[current_league_index + 1]
       IN \E live_games \in fetch_live_games(current) :
             fg' = [fg EXCEPT ![t] =
                      [pc |-> IF live_games # <<>> THEN "ret" ELSE "loop",
                       attempts |-> 0,
                       live_games |-> live_games,
                       start |-> current_league_index,
                       calls |-> <<current>>]]
    /\ UNCHANGED <<league_rotation_order, orchestrator, fetch_lock, scroller,
                   now, upstream, pc_main, update_locals, pc_bg, bg_locals,
                   history>>

\* Line 237: while attempts < len(self.league_rotation_order).
LoopContinues(attempts, leagues) == attempts < leagues

\* A rotation step that forgets to advance.
NextLeagueIndexStuck(index, leagues) == index % leagues

\* Lines 238-240: the rotation index advances, wrapping at the end of the list.
NextLeagueIndex(index, leagues) == (index + 1) % leagues

\* Lines 237-260: one iteration of the rotation loop, and the return after it.
FetchLoop(t) ==
    /\ fg[t].pc = "loop"
    /\ LoopContinues(fg[t].attempts, Len(league_rotation_order))
    /\ LET next_index == NextLeagueIndex(current_league_index,
                                         Len(league_rotation_order))
           next_league == league_rotation_order[next_index + 1]
           attempts == fg[t].attempts + 1
       IN /\ current_league_index' = next_index
          /\ \E live_games \in fetch_live_games(next_league) :
                fg' = [fg EXCEPT ![t] =
                         [@ EXCEPT !.live_games = live_games,
                                   !.calls = Append(@, next_league),
                                   !.attempts = IF live_games # <<>> THEN @
                                                ELSE attempts,
                                   !.pc = IF live_games # <<>>
                                             \/ ~LoopContinues(attempts,
                                                     Len(league_rotation_order))
                                          THEN "ret" ELSE "loop"]]
    /\ UNCHANGED <<league_rotation_order, games_data, last_data_update,
                   needs_initial_update, pending_games_data,
                   pending_data_ready, fetch_in_progress, fetch_lock,
                   scroller, now, upstream, pc_main, update_locals, pc_bg,
                   bg_locals, history>>

\* ------------------------------------------------ _render_scrolling_content
\* stats_renderer.render_game_card, lines 68-146: the card of a game; when
\* drawing it raises, the except of lines 143-146 returns the card of
\* _create_error_card in its place.  The function never raises.
render_game_card(game) == IF game.drawable THEN "card" ELSE "error_card"

\* Lines 264-303, the content items handed to the scroll helper: the single
\* placeholder of create_no_games_placeholder when the batch is empty, else
\* what render_game_card returned for each game.  The except of lines 283-284
\* and the placeholder of lines 286-295 need render_game_card to raise.
ContentItems(batch) ==
    IF Len(batch) = 0 THEN <<"placeholder">>
    ELSE [i \in 1..Len(batch) |-> render_game_card(batch[i])]

\* create_scrolling_image builds the image and restarts the scroll at 0.
RenderScrollingContent(batch) ==
    /\ content_items' = ContentItems(batch)
    /\ total_scroll_width' = DisplayWidth + ItemWidth * Len(ContentItems(batch))
    /\ scroll_position' = 0

\* Lines 411-413: has_live_content().
has_live_content == games_data # <<>>

\* ------------------------------------------------------------- update()
\* Lines 135-139: no league is enabled.
UpdateNoLeagues ==
    /\ pc_main = "idle"
    /\ league_rotation_order = <<>>
    /\ games_data' = <<>>
    /\ RenderScrollingContent(<<>>)
    /\ UNCHANGED <<league_rotation_order, current_league_index,
                   last_data_update, needs_initial_update,
                   pending_games_data, pending_data_ready, fetch_in_progress,
                   fetch_lock, now, upstream, pc_main, update_locals, pc_bg,
                   bg_locals, fg, history>>

\* Lines 142-143 and 159-163: the initial update enters _fetch_games on the
\* calling thread.
UpdateInitial ==
    /\ pc_main = "idle"
    /\ league_rotation_order # <<>>
    /\ needs_initial_update
    /\ pc_main' = "sync_fetch"
    /\ fg' = [fg EXCEPT ![MainThread] = CallFetchGames]
    /\ sync_fetches' = IF sync_fetches < 2 THEN sync_fetches + 1 ELSE sync_fetches
    /\ UNCHANGED <<league_rotation_order, orchestrator, fetch_lock, scroller,
                   now, upstream, update_locals, pc_bg, bg_locals, tick_games,
                   ready_reads>>

\* An initial fetch that counts as done only when it found games.
FetchDataSyncFinishIfGames ==
    /\ pc_main = "sync_fetch"
    /\ fg[MainThread].pc = "ret"
    /\ games_data' = fg[MainThread].live_games
    /\ last_data_update' = now
    /\ needs_initial_update' = (fg[MainThread].live_games = <<>>)
    /\ RenderScrollingContent(fg[MainThread].live_games)
    /\ fg' = [fg EXCEPT ![MainThread] = BlankFrame]
    /\ pc_main' = "idle"
    /\ UNCHANGED <<league_rotation_order, current_league_index,
                   pending_games_data, pending_data_ready, fetch_in_progress,
                   fetch_lock, now, upstream, update_locals, pc_bg, bg_locals,
                   history>>

\* Lines 163-174: _fetch_data_sync after _fetch_games has returned.
FetchDataSyncFinish ==
    /\ pc_main = "sync_fetch"
    /\ fg[MainThread].pc = "ret"
    /\ games_data' = fg[MainThread].live_games
    /\ last_data_update' = now
    /\ needs_initial_update' = FALSE
    /\ RenderScrollingContent(fg[MainThread].live_games)
    /\ fg' = [fg EXCEPT ![MainThread] = BlankFrame]
    /\ pc_main' = "idle"
    /\ UNCHANGED <<league_rotation_order, current_league_index,
                   pending_games_data, pending_data_ready, fetch_in_progress,
                   fetch_lock, now, upstream, update_locals, pc_bg, bg_locals,
                   history>>

\* Lines 146-149: a later update reads the clock.
UpdateReadClock ==
    /\ pc_main = "idle"
    /\ league_rotation_order # <<>>
    /\ ~needs_initial_update
    /\ current_time' = now
    /\ pc_main' = "u_read"
    /\ UNCHANGED <<league_rotation_order, orchestrator, fetch_lock, scroller,
                   now, upstream, time_since_update, pc_bg, bg_locals, fg,
                   history>>

\* Line 150: time_since_update = current_time - self.last_data_update.
UpdateReadLast ==
    /\ pc_main = "u_read"
    /\ time_since_update' = current_time - last_data_update
    /\ pc_main' = "u_check"
    /\ UNCHANGED <<league_rotation_order, orchestrator, fetch_lock, scroller,
                   now, upstream, current_time, pc_bg, bg_locals, fg, history>>

\* The condition without its in-flight guard.
ShouldStartFetchUnguarded(elapsed, in_progress) == elapsed >= UpdateInterval

\* Line 152: the condition under which update() starts a background fetch.
ShouldStartFetch(elapsed, in_progress) ==
    elapsed >= UpdateInterval /\ ~in_progress

\* The thread slot a new background task takes.
FreeSlot == CHOOSE t \in BgThreads :
                /\ pc_bg[t] = "none"
                /\ \A u \in BgThreads : pc_bg[u] = "none" => t <= u

\* Lines 176-180: _start_background_fetch.
StartBackgroundFetch ==
    /\ \E t \in BgThreads : pc_bg[t] = "none"
    /\ fetch_in_progress' = TRUE
    /\ pc_bg' = [pc_bg EXCEPT ![FreeSlot] = "b_fetch"]
    /\ fg' = [fg EXCEPT ![FreeSlot] = CallFetchGames]

\* Lines 152-157: start the background fetch, or return without doing it.
UpdateCheck ==
    /\ pc_main = "u_check"
    /\ IF ShouldStartFetch(time_since_update, fetch_in_progress)
       THEN StartBackgroundFetch
       ELSE UNCHANGED <<fetch_in_progress, pc_bg, fg>>
    /\ pc_main' = "idle"
    /\ current_time' = 0
    /\ time_since_update' = 0
    /\ UNCHANGED <<league_rotation_order, current_league_index, games_data,
                   last_data_update, needs_initial_update,
                   pending_games_data, pending_data_ready, fetch_lock,
                   scroller, now, upstream, bg_locals, history>>

\* ------------------------------------------------ _background_fetch_data
\* Lines 186-189: _fetch_games has returned; enter the critical section.
BgLock(t) ==
    /\ pc_bg[t] = "b_fetch"
    /\ fg[t].pc = "ret"
    /\ fetch_lock = LockFree
    /\ bg_live_games' = [bg_live_games EXCEPT ![t] = fg[t].live_games]
    /\ fg' = [fg EXCEPT ![t] = BlankFrame]
    /\ fetch_lock' = t
    /\ pc_bg' = [pc_bg EXCEPT ![t] = "b_store"]
    /\ UNCHANGED <<league_rotation_order, orchestrator, scroller, now,
                   upstream, pc_main, update_locals, log_cond, history>>

\* A task that applies its result to the displayed batch at once.
BgStoreDisplayed(t) ==
    /\ pc_bg[t] = "b_store"
    /\ games_data' = bg_live_games[t]
    /\ pc_bg' = [pc_bg EXCEPT ![t] = "b_ready"]
    /\ UNCHANGED <<league_rotation_order, current_league_index,
                   pending_games_data, last_data_update, needs_initial_update,
                   pending_data_ready, fetch_in_progress, fetch_lock, scroller,
                   now, upstream, pc_main, update_locals, bg_locals, fg,
                   history>>

\* A hand-off that skips an empty result.
BgStoreIfGames(t) ==
    /\ pc_bg[t] = "b_store"
    /\ pending_games_data' = IF bg_live_games[t] # <<>>
                              THEN Some(bg_live_games[t])
                              ELSE pending_games_data
    /\ pc_bg' = [pc_bg EXCEPT ![t] = "b_ready"]
    /\ UNCHANGED <<league_rotation_order, current_league_index, games_data,
                   last_data_update, needs_initial_update, pending_data_ready,
                   fetch_in_progress, fetch_lock, scroller, now, upstream,
                   pc_main, update_locals, bg_locals, fg, history>>

\* A hand-off that keeps a batch that is still pending.
BgStoreKeepEarlier(t) ==
    /\ pc_bg[t] = "b_store"
    /\ pending_games_data' = IF pending_data_ready THEN pending_games_data
                              ELSE Some(bg_live_games[t])
    /\ pc_bg' = [pc_bg EXCEPT ![t] = "b_ready"]
    /\ UNCHANGED <<league_rotation_order, current_league_index, games_data,
                   last_data_update, needs_initial_update, pending_data_ready,
                   fetch_in_progress, fetch_lock, scroller, now, upstream,
                   pc_main, update_locals, bg_locals, fg, history>>

\* Line 190: self._pending_games_data = live_games if live_games else [].
BgStorePending(t) ==
    /\ pc_bg[t] = "b_store"
    /\ pending_games_data' = Some(bg_live_games[t])
    /\ pc_bg' = [pc_bg EXCEPT ![t] = "b_ready"]
    /\ UNCHANGED <<league_rotation_order, current_league_index, games_data,
                   last_data_update, needs_initial_update, pending_data_ready,
                   fetch_in_progress, fetch_lock, scroller, now, upstream,
                   pc_main, update_locals, bg_locals, fg, history>>

\* A hand-off that keeps the lock after setting the flag.
BgSetReadyKeepLock(t) ==
    /\ pc_bg[t] = "b_ready"
    /\ pending_data_ready' = TRUE
    /\ pc_bg' = [pc_bg EXCEPT ![t] = "b_stamp"]
    /\ UNCHANGED <<league_rotation_order, current_league_index, games_data,
                   last_data_update, needs_initial_update, pending_games_data,
                   fetch_in_progress, fetch_lock, scroller, now, upstream,
                   pc_main, update_locals, bg_locals, fg, history>>

\* Line 191 and the end of the with block: set the flag, release the lock.
BgSetReady(t) ==
    /\ pc_bg[t] = "b_ready"
    /\ pending_data_ready' = TRUE
    /\ fetch_lock' = LockFree
    /\ pc_bg' = [pc_bg EXCEPT ![t] = "b_stamp"]
    /\ UNCHANGED <<league_rotation_order, current_league_index, games_data,
                   last_data_update, needs_initial_update, pending_games_data,
                   fetch_in_progress, scroller, now, upstream, pc_main,
                   update_locals, bg_locals, fg, history>>

\* Line 193: self.last_data_update = time.time().
BgStamp(t) ==
    /\ pc_bg[t] = "b_stamp"
    /\ last_data_update' = now
    /\ pc_bg' = [pc_bg EXCEPT ![t] = "b_log1"]
    /\ UNCHANGED <<league_rotation_order, current_league_index, games_data,
                   needs_initial_update, pending_games_data,
                   pending_data_ready, fetch_in_progress, fetch_lock, scroller,
                   now, upstream, pc_main, update_locals, bg_locals, fg,
                   history>>

\* Python truth value of an optional list: neither None nor empty.
Truthy(opt) == opt # None /\ opt # Some(<<>>)

\* Line 197, the condition of "len(p) if p else 0": a first read of the slot.
BgLogCond(t) ==
    /\ pc_bg[t] = "b_log1"
    /\ log_cond' = [log_cond EXCEPT ![t] = Truthy(pending_games_data)]
    /\ pc_bg' = [pc_bg EXCEPT ![t] = "b_log2"]
    /\ UNCHANGED <<league_rotation_order, orchestrator, fetch_lock, scroller,
                   now, upstream, pc_main, update_locals, bg_live_games, fg,
                   history>>

\* Line 197, len(self._pending_games_data): a second read of the slot, which
\* raises TypeError when the slot has become None since the first read.
BgLogLen(t) ==
    /\ pc_bg[t] = "b_log2"
    /\ pc_bg' = [pc_bg EXCEPT ![t] =
                   IF log_cond[t] /\ pending_games_data = None
                   THEN "b_except" ELSE "b_finally"]
    /\ UNCHANGED <<league_rotation_order, orchestrator, fetch_lock, scroller,
                   now, upstream, pc_main, update_locals, bg_locals, fg,
                   history>>

\* Lines 199-200: the exception is logged.
BgExcept(t) ==
    /\ pc_bg[t] = "b_except"
    /\ pc_bg' = [pc_bg EXCEPT ![t] = "b_finally"]
    /\ UNCHANGED <<league_rotation_order, orchestrator, fetch_lock, scroller,
                   now, upstream, pc_main, update_locals, bg_locals, fg,
                   history>>

\* A task that ends without clearing the in-flight flag.
BgEndWithoutClear(t) ==
    /\ pc_bg[t] = "b_finally"
    /\ pc_bg' = [pc_bg EXCEPT ![t] = "none"]
    /\ log_cond' = [log_cond EXCEPT ![t] = FALSE]
    /\ bg_live_games' = [bg_live_games EXCEPT ![t] = <<>>]
    /\ UNCHANGED <<league_rotation_order, orchestrator, fetch_lock, scroller,
                   now, upstream, pc_main, update_locals, fg, history>>

\* Lines 201-202: the in-flight flag is cleared and the task ends.
BgFinally(t) ==
    /\ pc_bg[t] = "b_finally"
    /\ fetch_in_progress' = FALSE
    /\ pc_bg' = [pc_bg EXCEPT ![t] = "none"]
    /\ log_cond' = [log_cond EXCEPT ![t] = FALSE]
    /\ bg_live_games' = [bg_live_games EXCEPT ![t] = <<>>]
    /\ UNCHANGED <<league_rotation_order, current_league_index, games_data,
                   last_data_update, needs_initial_update, pending_games_data,
                   pending_data_ready, fetch_lock, scroller, now, upstream,
                   pc_main, update_locals, fg, history>>

\* --------------------------------------------------------------- display()
\* scroll_helper.update_scroll_position in continuous mode: advance one unit
\* and wrap at the end of the image; nothing moves before an image exists.
UpdateScrollPosition(pos, width) ==
    IF width = 0 THEN pos
    ELSE IF pos + 1 >= width THEN pos + 1 - width ELSE pos + 1

\* Line 336: wrapped = (old_pos - new_pos) > self.scroll_helper.display_width.
Wrapped(old_pos, new_pos) == (old_pos - new_pos) > DisplayWidth

\* Lines 324-336 and 361-390: a tick on which no wrap is detected.
DisplayScroll ==
    /\ pc_main = "idle"
    /\ LET new_pos == UpdateScrollPosition(scroll_position, total_scroll_width)
       IN /\ ~Wrapped(scroll_position, new_pos)
          /\ scroll_position' = new_pos
    /\ UNCHANGED <<league_rotation_order, orchestrator, fetch_lock,
                   total_scroll_width, content_items, now, upstream, pc_main,
                   update_locals, pc_bg, bg_locals, fg, history>>

\* Lines 324-341: a tick on which the wrap is detected.
DisplayWrap ==
    /\ pc_main = "idle"
    /\ LET new_pos == UpdateScrollPosition(scroll_position, total_scroll_width)
       IN /\ Wrapped(scroll_position, new_pos)
          /\ scroll_position' = new_pos
    /\ pc_main' = "d_lock"
    /\ tick_games' = Some(games_data)
    /\ UNCHANGED <<league_rotation_order, orchestrator, fetch_lock,
                   total_scroll_width, content_items, now, upstream,
                   update_locals, pc_bg, bg_locals, fg, ready_reads,
                   sync_fetches>>

\* Line 344: with self._fetch_lock.
DisplayLock ==
    /\ pc_main = "d_lock"
    /\ fetch_lock = LockFree
    /\ fetch_lock' = MainThread
    /\ pc_main' = "d_check"
    /\ UNCHANGED <<league_rotation_order, orchestrator, scroller, now,
                   upstream, update_locals, pc_bg, bg_locals, fg, history>>

\* Lines 345 and 356-390: nothing is pending; the tick ends.
DisplayNoPending ==
    /\ pc_main = "d_check"
    /\ ~pending_data_ready
    /\ fetch_lock' = LockFree
    /\ pc_main' = "idle"
    /\ tick_games' = None
    /\ ready_reads' = 0
    /\ UNCHANGED <<league_rotation_order, orchestrator, scroller, now,
                   upstream, update_locals, pc_bg, bg_locals, fg,
                   sync_fetches>>

\* Line 345: a batch is pending.
DisplayCheckReady ==
    /\ pc_main = "d_check"
    /\ pending_data_ready
    /\ ready_reads' = ready_reads + 1
    /\ pc_main' = "d_swap"
    /\ UNCHANGED <<league_rotation_order, orchestrator, fetch_lock, scroller,
                   now, upstream, update_locals, pc_bg, bg_locals, fg,
                   tick_games, sync_fetches>>

\* Line 346: self.games_data = self._pending_games_data.
DisplaySwapGames ==
    /\ pc_main = "d_swap"
    /\ games_data' = IF pending_games_data = None THEN games_data
                     ELSE CHOOSE b \in pending_games_data : TRUE
    /\ pc_main' = "d_clear"
    /\ UNCHANGED <<league_rotation_order, current_league_index,
                   last_data_update, needs_initial_update,
                   pending_games_data, pending_data_ready, fetch_in_progress,
                   fetch_lock, scroller, now, upstream, update_locals, pc_bg,
                   bg_locals, fg, history>>

\* Line 347: self._pending_games_data = None.
DisplayClearPending ==
    /\ pc_main = "d_clear"
    /\ pending_games_data' = None
    /\ pc_main' = "d_unready"
    /\ UNCHANGED <<league_rotation_order, current_league_index, games_data,
                   last_data_update, needs_initial_update, pending_data_ready,
                   fetch_in_progress, fetch_lock, scroller, now, upstream,
                   update_locals, pc_bg, bg_locals, fg, history>>

\* A swap that leaves the ready flag set.
DisplayLeaveReady ==
    /\ pc_main = "d_unready"
    /\ pc_main' = "d_render"
    /\ UNCHANGED <<league_rotation_order, orchestrator, fetch_lock, scroller,
                   now, upstream, update_locals, pc_bg, bg_locals, fg,
                   history>>

\* Line 348: self._pending_data_ready = False.
DisplayClearReady ==
    /\ pc_main = "d_unready"
    /\ pending_data_ready' = FALSE
    /\ pc_main' = "d_render"
    /\ UNCHANGED <<league_rotation_order, current_league_index, games_data,
                   last_data_update, needs_initial_update, pending_games_data,
                   fetch_in_progress, fetch_lock, scroller, now, upstream,
                   update_locals, pc_bg, bg_locals, fg, history>>

\* Lines 351-355, the end of the with block and lines 361-390.
DisplayRender ==
    /\ pc_main = "d_render"
    /\ RenderScrollingContent(games_data)
    /\ fetch_lock' = LockFree
    /\ pc_main' = "idle"
    /\ tick_games' = None
    /\ ready_reads' = 0
    /\ UNCHANGED <<league_rotation_order, orchestrator, now, upstream,
                   update_locals, pc_bg, bg_locals, fg, sync_fetches>>

\* ----------------------------------------------------------- environment
\* The wall clock advances.
Tick ==
    /\ now < MaxTime
    /\ now' = now + 1
    /\ UNCHANGED <<league_rotation_order, orchestrator, fetch_lock, scroller,
                   upstream, pc_main, update_locals, pc_bg, bg_locals, fg,
                   history>>

\* ============================================================ DataFetcher
\* A league table with a stray fifth key.
LEAGUE_MAP_WITH_MLB == {LeagueKeys[i] : i \in DOMAIN LeagueKeys} \cup {"mlb"}

\* LEAGUE_MAP, lines 13-18: the supported league keys.
LEAGUE_MAP == {LeagueKeys[i] : i \in DOMAIN LeagueKeys}

\* A key the feed's JSON object does not have.
Absent == "<absent>"

\* dict.get(key, default).
Get(value, default) == IF value = Absent THEN default ELSE value

\* Python's int() on the strings a feed carries; on any other string it raises
\* ValueError.
IntValue == ("0" :> 0) @@ ("1" :> 1) @@ ("2" :> 2) @@ ("7" :> 7)

IntRaises(x) == x \notin DOMAIN IntValue

\* int(team.get('score', 0)), lines 177-178 and 788-789.
ScoreRaises(team) == team.score # Absent /\ IntRaises(team.score)

Score(team) == IF team.score = Absent THEN 0 ELSE IntValue[team.score]

\* str.upper() on the abbreviations the feeds and the configuration carry.
Upper == ("Lal" :> "LAL") @@ ("lal" :> "LAL") @@ ("BOS" :> "BOS")
         @@ ("NYK" :> "NYK") @@ ("HOME" :> "HOME") @@ ("AWAY" :> "AWAY")
         @@ ("?" :> "?")

\* Lines 169-170 and 688-689: abbr.upper() in [t.upper() for t in favorite_teams].
InFavorites(abbr, favorite_teams) ==
    \E i \in DOMAIN favorite_teams : Upper[favorite_teams[i]] = Upper[abbr]

\* The teams a feed may list: a score that is a number, a score that is not,
\* and no score at all.
FeedTeams == {[abbreviation |-> "Lal", score |-> "7"],
              [abbreviation |-> "BOS", score |-> "x"],
              [abbreviation |-> "NYK", score |-> Absent]}

Competitor(side, team) ==
    [homeAway |-> side, abbreviation |-> team.abbreviation, score |-> team.score]

\* The events a scoreboard may list, with both teams or with the home team
\* only.  "in" is the ESPN feeds' in-progress state and "live" the NCAA
\* feed's; each is some other state to the other path.
FeedEvents ==
    {[state |-> st,
      competitors |-> <<Competitor("away", a), Competitor("home", h)>>] :
        st \in {"in", "live"}, a \in FeedTeams, h \in FeedTeams}
    \cup {[state |-> st, competitors |-> <<Competitor("home", h)>>] :
            st \in {"in", "live"}, h \in FeedTeams}

\* The scoreboards a feed may answer with; an event's id is its position.
Scoreboards == UNION {[1..n -> FeedEvents] : n \in 0..MaxEvents}

\* A flag that follows the configured flag alone.
ExpandedStatsFromFlag(is_favorite, favorite_team_expanded_stats) ==
    favorite_team_expanded_stats

\* Lines 183 and 794: is_favorite and favorite_team_expanded_stats.
ExpandedStats(is_favorite, favorite_team_expanded_stats) ==
    is_favorite /\ favorite_team_expanded_stats

\* Lines 146-215: the GameRecord of an ESPN event, Some(record), or None when
\* the event lacks a home or an away competitor or a score makes int() raise
\* (caught at line 213).
_parse_game_event(event, game_id, league_key, favorite_teams, expanded_stats) ==
    LET competitors == event.competitors
        homes == SelectSeq(competitors, LAMBDA c : c.homeAway = "home")
        aways == SelectSeq(competitors, LAMBDA c : c.homeAway = "away")
    IN IF Len(competitors) < 2 THEN None
       ELSE IF homes = <<>> \/ aways = <<>> THEN None
       ELSE LET home_team == homes[1]
                away_team == aways[1]
                home_abbr == Get(home_team.abbreviation, "HOME")
                away_abbr == Get(away_team.abbreviation, "AWAY")
                is_favorite == /\ favorite_teams # <<>>
                               /\ \/ InFavorites(home_abbr, favorite_teams)
                                  \/ InFavorites(away_abbr, favorite_teams)
            IN IF ScoreRaises(home_team) \/ ScoreRaises(away_team) THEN None
               ELSE Some([id |-> game_id,
                          league |-> league_key,
                          home_abbr |-> home_abbr,
                          away_abbr |-> away_abbr,
                          home_score |-> Score(home_team),
                          away_score |-> Score(away_team),
                          is_favorite |-> is_favorite,
                          expanded_stats |->
                              ExpandedStats(is_favorite, expanded_stats)])

\* Lines 96-126: the loop over the events of an ESPN scoreboard, from event i
\* on, with the records collected so far.
RECURSIVE EspnEventsLoop(_, _, _, _)
EspnEventsLoop(events, i, live_games, a) ==
    IF i > Len(events) \/ Len(live_games) >= a.max_games THEN live_games
    ELSE IF events[i].state # "in"
         THEN EspnEventsLoop(events, i + 1, live_games, a)
         ELSE LET game_info == _parse_game_event(events[i], i, a.league_key,
                                      a.favorite_teams,
                                      a.favorite_team_expanded_stats)
              IN EspnEventsLoop(events, i + 1,
                    IF game_info # None
                    THEN Append(live_games, CHOOSE g \in game_info : TRUE)
                    ELSE live_games, a)

\* game.get('home', {}) and game.get('away', {}) of the NCAA feed.
EmptyDict == [homeAway |-> Absent, abbreviation |-> Absent, score |-> Absent]

NcaaSide(game, side) ==
    LET listed == SelectSeq(game.competitors, LAMBDA c : c.homeAway = side)
    IN IF listed = <<>> THEN EmptyDict ELSE listed[1]

\* Lines 771-812: the GameRecord of an NCAA game, or None when a score makes
\* int() raise (caught at line 810).
_parse_ncaa_game(game, game_id, is_favorite, expanded_stats) ==
    LET home == NcaaSide(game, "home")
        away == NcaaSide(game, "away")
    IN IF ScoreRaises(home) \/ ScoreRaises(away) THEN None
       ELSE Some([id |-> game_id,
                  league |-> "ncaam",
                  home_abbr |-> Get(home.abbreviation, "HOME"),
                  away_abbr |-> Get(away.abbreviation, "AWAY"),
                  home_score |-> Score(home),
                  away_score |-> Score(away),
                  is_favorite |-> is_favorite,
                  expanded_stats |-> ExpandedStats(is_favorite, expanded_stats)])

\* Line 732: the slugs of the power conferences.
power_conference_slugs == {"big-ten", "big-12", "sec", "acc", "big-east", "pac-12"}

\* A conferenceSeo of JSON null: conf.get('conferenceSeo', '') is None and
\* None.lower() raises AttributeError.
Null == "<null>"

\* str.lower() on the conference slugs the feed carries.
Lower == ("SEC" :> "sec") @@ ("sec" :> "sec") @@ ("big-sky" :> "big-sky")

\* team.get('conferences', []): each entry is written as its conferenceSeo.
Conferences(team) ==
    IF "conferences" \in DOMAIN team THEN team.conferences ELSE <<>>

\* Lines 739-753: the loops over the away and then the home conferences.
\* The outcome is "power" at the first power conference, "raised" at an entry
\* whose slug cannot be lowered, and "other" at the end.
RECURSIVE ConferenceScan(_, _)
ConferenceScan(conferences, i) ==
    IF i > Len(conferences) THEN "other"
    ELSE IF conferences[i] = Null THEN "raised"
    ELSE IF Lower[conferences[i]] \in power_conference_slugs THEN "power"
    ELSE ConferenceScan(conferences, i + 1)

\* Lines 712-757: True at the first power conference; False at the end of
\* both loops, and False from the except of lines 755-757.
_is_power_conference_game(game) ==
    LET scan == ConferenceScan(Conferences(NcaaSide(game, "away"))
                                  \o Conferences(NcaaSide(game, "home")), 1)
    IN CASE scan = "power" -> TRUE
         [] scan = "other" -> FALSE
         [] scan = "raised" -> FALSE

\* Lines 660-706: the loop over the games of the NCAA scoreboard.
RECURSIVE NcaaGamesLoop(_, _, _, _)
NcaaGamesLoop(games, i, live_games, a) ==
    IF i > Len(games) \/ Len(live_games) >= a.max_games THEN live_games
    ELSE LET game == games[i]
             away_name == Get(NcaaSide(game, "away").abbreviation, "?")
             home_name == Get(NcaaSide(game, "home").abbreviation, "?")
             is_favorite_game == /\ a.favorite_teams # <<>>
                                 /\ \/ InFavorites(away_name, a.favorite_teams)
                                    \/ InFavorites(home_name, a.favorite_teams)
             game_info == _parse_ncaa_game(game, i, is_favorite_game,
                                           a.favorite_team_expanded_stats)
         IN IF game.state # "live"
            THEN NcaaGamesLoop(games, i + 1, live_games, a)
            ELSE IF /\ a.power_conferences_only
                    /\ ~_is_power_conference_game(game)
            THEN NcaaGamesLoop(games, i + 1, live_games, a)
            ELSE IF a.favorite_teams # <<>> /\ ~is_favorite_game
            THEN NcaaGamesLoop(games, i + 1, live_games, a)
            ELSE NcaaGamesLoop(games, i + 1,
                    IF game_info # None
                    THEN Append(live_games, CHOOSE g \in game_info : TRUE)
                    ELSE live_games, a)

\* What the ESPN path returns: [] when the scoreboard request raised or gave
\* nothing (lines 87-89 and 128-130), else the records of the loop.
EspnLiveGames(board, a) ==
    IF board = None THEN <<>>
    ELSE EspnEventsLoop(CHOOSE b \in board : TRUE, 1, <<>>, a)

\* What the NCAA path returns (lines 651-653 and 708-710 give []).
NcaaLiveGames(board, a) ==
    IF board = None THEN <<>>
    ELSE NcaaGamesLoop(CHOOSE b \in board : TRUE, 1, <<>>, a)

\* Lines 64-66: an unknown league key returns [] before any request.
FetchUnknownLeague ==
    /\ pc_fetcher = "call"
    /\ args.league_key \notin LEAGUE_MAP
    /\ returned' = Some(<<>>)
    /\ requests' = 0
    /\ pc_fetcher' = "done"
    /\ UNCHANGED <<args, scoreboard, extraction>>

\* Lines 69-70 and 618-710: ncaam goes to the NCAA feed: one request for the
\* scoreboard and one for the boxscore of each game parsed.
FetchNcaaBasketballGames ==
    /\ pc_fetcher = "call"
    /\ args.league_key \in LEAGUE_MAP
    /\ args.league_key = "ncaam"
    /\ returned' = Some(NcaaLiveGames(scoreboard, args))
    /\ requests' = 1 + Len(NcaaLiveGames(scoreboard, args))
    /\ pc_fetcher' = "done"
    /\ UNCHANGED <<args, scoreboard, extraction>>

\* An ESPN path that keeps only the games of the favorite teams.
FetchEspnFavoritesOnly ==
    /\ pc_fetcher = "call"
    /\ args.league_key \in LEAGUE_MAP
    /\ args.league_key # "ncaam"
    /\ LET live_games == EspnLiveGames(scoreboard, args)
           kept == IF args.favorite_teams = <<>> THEN live_games
                   ELSE SelectSeq(live_games, LAMBDA g : g.is_favorite)
       IN /\ returned' = Some(kept)
          /\ requests' = 1 + Len(kept)
    /\ pc_fetcher' = "done"
    /\ UNCHANGED <<args, scoreboard, extraction>>

\* Lines 72-130: the other leagues go to the ESPN scoreboard: one request for
\* the scoreboard and one for the boxscore of each event parsed.
FetchEspnScoreboard ==
    /\ pc_fetcher = "call"
    /\ args.league_key \in LEAGUE_MAP
    /\ args.league_key # "ncaam"
    /\ returned' = Some(EspnLiveGames(scoreboard, args))
    /\ requests' = 1 + Len(EspnLiveGames(scoreboard, args))
    /\ pc_fetcher' = "done"
    /\ UNCHANGED <<args, scoreboard, extraction>>

\* ---------------------------------------------- basketball leader extraction
\* The stat categories, and the key of each in a player of the NCAA boxscore.
BasicCategories == {"PTS", "REB", "AST"}

ExpandedCategories == {"STL", "BLK"}

StatRaw(player, cat) ==
    CASE cat = "PTS" -> player.points
      [] cat = "REB" -> player.totalRebounds
      [] cat = "AST" -> player.assists
      [] cat = "STL" -> player.steals
      [] cat = "BLK" -> player.blocks

\* int(player.get(key, 0) or 0), lines 894-906, and int(stats[idx]) guarded by
\* "idx < len(stats) and stats[idx]", lines 382-391: a missing or empty value
\* counts 0, a string that is not a number raises ValueError.
StatRaises(raw) == raw \notin {Absent, ""} /\ IntRaises(raw)

StatValue(raw) == IF raw \in {Absent, ""} THEN 0 ELSE IntValue[raw]

\* The stat lines a boxscore may carry for a player.
StatLines ==
    [points : {"0", "1", "2"}, totalRebounds : {""}, assists : {"1", "x"},
     steals : {"0", "x"}, blocks : {"1"}]

\* The player lists of a team's boxscore; a player's name is his position.
Boxscores ==
    {[i \in DOMAIN lines |->
        [name |-> i, points |-> lines[i].points,
         totalRebounds |-> lines[i].totalRebounds,
         assists |-> lines[i].assists, steals |-> lines[i].steals,
         blocks |-> lines[i].blocks]] :
       lines \in UNION {[1..n -> StatLines] : n \in 0..MaxPlayers}}

\* The stat lines of a full roster: a scorer whose steals are not a number
\* and a player whose five stats all parse.
RosterLines ==
    {l \in StatLines :
       /\ l.assists = "1"
       /\ \/ l.points = "2" /\ l.steals = "x"
          \/ l.points = "1" /\ l.steals = "0"}

\* The player lists of MaxRoster players, more than the ten leaders that are
\* kept per category.
FullRosters ==
    {[i \in DOMAIN lines |->
        [name |-> i, points |-> lines[i].points,
         totalRebounds |-> lines[i].totalRebounds,
         assists |-> lines[i].assists, steals |-> lines[i].steals,
         blocks |-> lines[i].blocks]] :
       lines \in [1..MaxRoster -> RosterLines]}

\* Lines 887-912: the list of {'name', 'value'} built for a category.  A
\* player whose points, rebounds or assists raise is skipped altogether; one
\* whose steals or blocks raise is left out of the STL and BLK lists, which
\* are filled only when expanded_stats is set.
NcaaStatList(players, cat, expanded_stats) ==
    LET parsed(p) ==
           /\ \A c \in BasicCategories : ~StatRaises(StatRaw(p, c))
           /\ cat \in ExpandedCategories =>
                 /\ expanded_stats
                 /\ \A c \in ExpandedCategories : ~StatRaises(StatRaw(p, c))
        kept == SelectSeq(players, parsed)
    IN [i \in DOMAIN kept |->
          [name |-> kept[i].name, value |-> StatValue(StatRaw(kept[i], cat))]]

\* An insertion that puts an entry before the entries of equal value.
InsertBeforeEqual(sorted, x) ==
    SelectSeq(sorted, LAMBDA y : y.value > x.value) \o <<x>>
       \o SelectSeq(sorted, LAMBDA y : y.value <= x.value)

\* The place of an entry in a list sorted by value descending: after the
\* entries of greater or equal value.
InsertDescending(sorted, x) ==
    SelectSeq(sorted, LAMBDA y : y.value >= x.value) \o <<x>>
       \o SelectSeq(sorted, LAMBDA y : y.value < x.value)

\* sorted(list, key=lambda x: x['value'], reverse=True): a stable sort,
\* entries of equal value keep the order of the list.
RECURSIVE SortedDescending(_)
SortedDescending(list) ==
    IF list = <<>> THEN <<>>
    ELSE InsertDescending(SortedDescending(SubSeq(list, 1, Len(list) - 1)),
                          list[Len(list)])

\* Line 915: num_leaders = 10 if expanded_stats else 2.
NumLeaders(expanded_stats) == IF expanded_stats THEN 10 ELSE 2

\* list[:n].
Take(list, n) == SubSeq(list, 1, IF n < Len(list) THEN n ELSE Len(list))

\* Lines 877-955: the leaders dict of a team, or None.  A category is set when
\* its sorted list is not empty and its first entry has a value above 0.
_extract_ncaa_basketball_leaders(players, expanded_stats) ==
    IF players = <<>> THEN None
    ELSE LET sorted(cat) ==
                SortedDescending(NcaaStatList(players, cat, expanded_stats))
             categories == IF expanded_stats
                           THEN BasicCategories \cup ExpandedCategories
                           ELSE BasicCategories
             present == {cat \in categories :
                           sorted(cat) # <<>> /\ sorted(cat)[1].value > 0}
         IN IF present = {} THEN None
            ELSE Some([cat \in present |->
                         Take(sorted(cat), NumLeaders(expanded_stats))])

\* Lines 359-407: the athlete that ends up in max_<cat>: the first of the
\* athletes whose stats all parse to reach the greatest value, if above 0.
\* An athlete one of whose five stats raises is skipped by the except of
\* line 405.
BoxscoreMax(athletes, cat) ==
    LET valid == SelectSeq(athletes,
                    LAMBDA p : \A c \in BasicCategories \cup ExpandedCategories :
                                  ~StatRaises(StatRaw(p, c)))
        value(i) == StatValue(StatRaw(valid[i], cat))
        best == {i \in DOMAIN valid :
                   /\ value(i) > 0
                   /\ \A j \in DOMAIN valid : value(j) <= value(i)
                   /\ \A j \in 1..(i - 1) : value(j) < value(i)}
    IN {[name |-> valid[i].name, value |-> value(i)] : i \in best}

\* Lines 347-422: the leaders dict of a team from the ESPN boxscore, or None:
\* each category that has a leader holds the list of that one leader.
_extract_boxscore_basketball_leaders(athletes, expanded_stats) ==
    IF athletes = <<>> THEN None
    ELSE LET categories == IF expanded_stats
                           THEN BasicCategories \cup ExpandedCategories
                           ELSE BasicCategories
             present == {cat \in categories : BoxscoreMax(athletes, cat) # {}}
         IN IF present = {} THEN None
            ELSE Some([cat \in present |->
                         <<CHOOSE m \in BoxscoreMax(athletes, cat) : TRUE>>])

\* _parse_ncaa_game, lines 801-806: the leaders of a team, NCAA boxscore.
ExtractNcaaBasketballLeaders ==
    /\ pc_fetcher = "extract"
    /\ leaders' = _extract_ncaa_basketball_leaders(player_stats,
                                                   args.expanded_stats)
    /\ pc_fetcher' = "ncaa"
    /\ UNCHANGED <<args, scoreboard, returned, requests, player_stats>>

\* _parse_game_event, lines 193-198: the leaders of a team, ESPN boxscore.
ExtractBoxscoreBasketballLeaders ==
    /\ pc_fetcher = "extract"
    /\ leaders' = _extract_boxscore_basketball_leaders(player_stats,
                                                       args.expanded_stats)
    /\ pc_fetcher' = "espn"
    /\ UNCHANGED <<args, scoreboard, returned, requests, player_stats>>

\* ------------------------------------------------------------ player names
\* A name is the sequence of its characters.  The names a feed may carry:
\* letters and spaces, the letter "b" at most as the first character.
Names ==
    {<<>>} \cup
    UNION {{<<c>> \o rest : c \in {"a", "b", " "},
                            rest \in [1..(n - 1) -> {"a", " "}]} :
             n \in 1..MaxNameLen}

\* The end of the word that starts a string whose first character is not a
\* space.
WordEnd(s) ==
    CHOOSE n \in 1..Len(s) :
       /\ \A i \in 1..n : s[i] # " "
       /\ n = Len(s) \/ s[n + 1] = " "

\* full_name.split(), line 610: the words between runs of spaces.
RECURSIVE Split(_)
Split(s) ==
    IF s = <<>> THEN <<>>
    ELSE IF Head(s) = " " THEN Split(Tail(s))
    ELSE <<SubSeq(s, 1, WordEnd(s))>>
            \o Split(SubSeq(s, WordEnd(s) + 1, Len(s)))

\* An abbreviation that takes the initial from the last word.
_abbreviate_name_last_initial(full_name) ==
    LET parts == Split(full_name)
        last == parts[Len(parts)]
    IN IF Len(parts) >= 2
       THEN IF Len(last) <= 8 THEN last
            ELSE <<last[1], ".", " ">> \o last
       ELSE IF Len(full_name) > 10 THEN SubSeq(full_name, 1, 10)
            ELSE full_name

\* Lines 596-616: the last word if it has at most 8 characters, else the
\* first initial, ". " and the last word; a name of fewer than two words is
\* cut to 10 characters.
_abbreviate_name(full_name) ==
    LET parts == Split(full_name)
        last == parts[Len(parts)]
    IN IF Len(parts) >= 2
       THEN IF Len(last) <= 8 THEN last
            ELSE <<parts[1][1], ".", " ">> \o last
       ELSE IF Len(full_name) > 10 THEN SubSeq(full_name, 1, 10)
            ELSE full_name

\* A call of _abbreviate_name on a name of the feed.
AbbreviateName ==
    /\ pc_fetcher = "name"
    /\ returned' = Some(_abbreviate_name(args.full_name))
    /\ pc_fetcher' = "abbreviated"
    /\ UNCHANGED <<args, scoreboard, requests, extraction>>

\* A call of _abbreviate_name on the name the first call returned.
AbbreviateAgain ==
    /\ pc_fetcher = "abbreviated"
    /\ \E name \in returned :
          /\ args' = [full_name |-> name]
          /\ returned' = Some(_abbreviate_name(name))
    /\ pc_fetcher' = "again"
    /\ UNCHANGED <<scoreboard, requests, extraction>>

\* --------------------------------------------------------- football leaders
\* The athletes a football stat section may list: displayName and stats; the
\* last one has fewer than the four stats the extraction needs.
FootballAthletes ==
    {[displayName |-> <<"b", " ", "a", "a", "a", "a", "a", "a", "a", "a", "a">>,
      stats |-> <<"20", "31", "245", "3">>],
     [displayName |-> <<"a", " ", "a">>, stats |-> <<"7", "88", "12", "1">>],
     [displayName |-> <<"a">>, stats |-> <<"1", "9", "0">>]}

\* The athletes of the 'passing', 'receiving' and 'rushing' sections, as the
\* boxscore or the scoreboard's competitor lists them.
FootballStatistics ==
    LET lists == UNION {[1..n -> FootballAthletes] : n \in 0..MaxAthletes}
    IN [passing : lists, receiving : lists, rushing : lists]

\* Lines 428-442: the leaders of a team from the football boxscore.
_extract_boxscore_football_leaders(boxscore, home_away) == None

\* f"{yds} YDS, {tds} TD", lines 540, 559 and 578.
YdsTd(yds, tds) == <<yds, " YDS, ", tds, " TD">>

\* Lines 510-594: the leaders of a team from the scoreboard's competitor:
\* the first athlete of each section, if he has four stats or more; yards
\* are stats[2] for passing and stats[1] for receiving and rushing,
\* touchdowns are stats[3].
extract_football_leaders(statistics) ==
    LET section(key) == CASE key = "QB" -> statistics.passing
                          [] key = "WR" -> statistics.receiving
                          [] key = "RB" -> statistics.rushing
        yards(key) == IF key = "QB" THEN 3 ELSE 2
        present == {key \in {"QB", "WR", "RB"} :
                      /\ section(key) # <<>>
                      /\ Len(section(key)[1].stats) >= 4}
    IN IF present = {} THEN None
       ELSE Some([key \in present |->
                    [name |-> _abbreviate_name(section(key)[1].displayName),
                     stats |-> YdsTd(section(key)[1].stats[yards(key)],
                                     section(key)[1].stats[4])]])

\* _parse_game_event, lines 199-201: the boxscore fetch succeeded.
ExtractBoxscoreFootballLeaders ==
    /\ pc_fetcher = "football"
    /\ args.boxscore
    /\ leaders' = _extract_boxscore_football_leaders(player_stats,
                                                     args.home_away)
    /\ pc_fetcher' = "football_done"
    /\ UNCHANGED <<args, scoreboard, returned, requests, player_stats>>

\* _parse_game_event, lines 202-209: the boxscore fetch failed, the leaders
\* come from the scoreboard's competitor.
ExtractFootballLeaders ==
    /\ pc_fetcher = "football"
    /\ ~args.boxscore
    /\ leaders' = extract_football_leaders(player_stats)
    /\ pc_fetcher' = "football_done"
    /\ UNCHANGED <<args, scoreboard, returned, requests, player_stats>>

\* No DataFetcher call is being looked at.
FetcherIdle ==
    /\ pc_fetcher = "none"
    /\ args = <<>>
    /\ scoreboard = None
    /\ returned = None
    /\ requests = 0
    /\ player_stats = <<>>
    /\ leaders = None

\* ------------------------------------------------------- the state machine
\* __init__, lines 88-98: the plugin state and the threads at rest.
InitOrchestrator ==
    /\ games_data = <<>>
    /\ last_data_update = 0
    /\ needs_initial_update = TRUE
    /\ pending_games_data = None
    /\ pending_data_ready = FALSE
    /\ fetch_in_progress = FALSE
    /\ fetch_lock = LockFree
    /\ scroll_position = 0
    /\ total_scroll_width = 0
    /\ content_items = <<>>
    /\ now = 1
    /\ pc_main = "idle"
    /\ current_time = 0
    /\ time_since_update = 0
    /\ pc_bg = [t \in BgThreads |-> "none"]
    /\ bg_live_games = [t \in BgThreads |-> <<>>]
    /\ log_cond = [t \in BgThreads |-> FALSE]
    /\ fg = [t \in Threads |-> BlankFrame]
    /\ tick_games = None
    /\ ready_reads = 0
    /\ sync_fetches = 0

\* __init__, lines 84-98, for every configuration of the leagues.
Init ==
    /\ \E enabled \in SUBSET ConfigurableLeagues,
          priority \in [ConfigurableLeagues -> 1..NumLeagues] :
          /\ league_rotation_order = BuildRotationOrder(enabled, priority)
          /\ upstream = [league \in enabled |-> FeedError..MaxGames]
    /\ current_league_index = 0
    /\ InitOrchestrator
    /\ FetcherIdle

FetchGamesStep(t) == FetchFirst(t) \/ FetchLoop(t)

MainStep ==
    \/ UpdateNoLeagues
    \/ UpdateInitial
    \/ FetchGamesStep(MainThread)
    \/ FetchDataSyncFinish
    \/ UpdateReadClock
    \/ UpdateReadLast
    \/ UpdateCheck
    \/ DisplayScroll
    \/ DisplayWrap
    \/ DisplayLock
    \/ DisplayNoPending
    \/ DisplayCheckReady
    \/ DisplaySwapGames
    \/ DisplayClearPending
    \/ DisplayClearReady
    \/ DisplayRender

BgStep(t) ==
    \/ FetchGamesStep(t)
    \/ BgLock(t)
    \/ BgStorePending(t)
    \/ BgSetReady(t)
    \/ BgStamp(t)
    \/ BgLogCond(t)
    \/ BgLogLen(t)
    \/ BgExcept(t)
    \/ BgFinally(t)

NextPlugin ==
    \/ MainStep
    \/ \E t \in BgThreads : BgStep(t)
    \/ Tick

Next == NextPlugin /\ UNCHANGED fetcher

Spec == Init /\ [][Next]_vars

\* The scheduling the threads get: a background task that can run does run; a
\* task waiting for the mutex gets it, because display() holds it only inside
\* a wrap tick; and a display() tick that holds the mutex runs to its end.
BgRun(t) ==
    \/ FetchGamesStep(t)
    \/ BgStorePending(t)
    \/ BgSetReady(t)
    \/ BgStamp(t)
    \/ BgLogCond(t)
    \/ BgLogLen(t)
    \/ BgExcept(t)
    \/ BgFinally(t)

DisplayCritical ==
    \/ DisplayNoPending
    \/ DisplayCheckReady
    \/ DisplaySwapGames
    \/ DisplayClearPending
    \/ DisplayClearReady
    \/ DisplayRender

FairSpec ==
    /\ Spec
    /\ \A t \in BgThreads : /\ WF_vars(BgRun(t) /\ UNCHANGED fetcher)
                            /\ SF_vars(BgLock(t) /\ UNCHANGED fetcher)
    /\ WF_vars(DisplayCritical /\ UNCHANGED fetcher)

\* The steps inside a call of update().
UpdateRun ==
    \/ FetchGamesStep(MainThread)
    \/ FetchDataSyncFinish
    \/ UpdateReadLast
    \/ UpdateCheck

\* The first step of a display() tick: the scroll advances.
DisplayTick == DisplayScroll \/ DisplayWrap

\* FairSpec, and display() keeps being called: a call of update() runs to its
\* end, display ticks keep occurring between the calls of update(), and a
\* tick waiting for the mutex gets it.
FairDisplaySpec ==
    /\ FairSpec
    /\ WF_vars(UpdateRun /\ UNCHANGED fetcher)
    /\ SF_vars(DisplayTick /\ UNCHANGED fetcher)
    /\ SF_vars(DisplayLock /\ UNCHANGED fetcher)

\* The same machine when every feed reports one fixed number of live games for
\* the whole run, started at any rotation index a run can have reached.
InitFrozenFeeds ==
    /\ \E enabled \in SUBSET ConfigurableLeagues,
          priority \in [ConfigurableLeagues -> 1..NumLeagues] :
          /\ league_rotation_order = BuildRotationOrder(enabled, priority)
          /\ upstream \in [enabled -> {{n} : n \in FeedError..MaxGames}]
          /\ current_league_index \in 0..(IF enabled = {} THEN 0
                                          ELSE Cardinality(enabled) - 1)
    /\ InitOrchestrator
    /\ FetcherIdle

SpecFrozenFeeds == InitFrozenFeeds /\ [][Next]_vars

\* One call of fetch_live_games, for every league key, limit, favorite list
\* and flag and every scoreboard the feed may answer with; the plugin is at
\* rest.
InitFetcher ==
    /\ league_rotation_order = <<>>
    /\ upstream = <<>>
    /\ current_league_index = 0
    /\ InitOrchestrator
    /\ pc_fetcher = "call"
    /\ args \in [league_key : LEAGUE_MAP \cup {"mlb"},
                  max_games : 0..MaxEvents,
                  power_conferences_only : {FALSE},
                  favorite_teams : {<<>>, <<"lal">>},
                  favorite_team_expanded_stats : BOOLEAN]
    /\ scoreboard \in {None} \cup {Some(b) : b \in Scoreboards}
    /\ returned = None
    /\ requests = 0
    /\ player_stats = <<>>
    /\ leaders = None

NextFetcher ==
    /\ \/ FetchUnknownLeague
       \/ FetchNcaaBasketballGames
       \/ FetchEspnScoreboard
    /\ UNCHANGED plugin

SpecFetcher == InitFetcher /\ [][NextFetcher]_vars

\* One extraction of a team's basketball leaders, from the NCAA boxscore or
\* from the ESPN boxscore, for every list of players and both settings of
\* expanded_stats; the plugin is at rest.
InitLeaders ==
    /\ league_rotation_order = <<>>
    /\ upstream = <<>>
    /\ current_league_index = 0
    /\ InitOrchestrator
    /\ pc_fetcher = "extract"
    /\ args \in [expanded_stats : BOOLEAN]
    /\ scoreboard = None
    /\ returned = None
    /\ requests = 0
    /\ player_stats \in Boxscores \cup FullRosters
    /\ leaders = None

NextLeaders ==
    /\ \/ ExtractNcaaBasketballLeaders
       \/ ExtractBoxscoreBasketballLeaders
    /\ UNCHANGED plugin

SpecLeaders == InitLeaders /\ [][NextLeaders]_vars

\* _abbreviate_name on every name, and then on its own output.
InitAbbreviate ==
    /\ league_rotation_order = <<>>
    /\ upstream = <<>>
    /\ current_league_index = 0
    /\ InitOrchestrator
    /\ pc_fetcher = "name"
    /\ args \in [full_name : Names]
    /\ scoreboard = None
    /\ returned = None
    /\ requests = 0
    /\ player_stats = <<>>
    /\ leaders = None

NextAbbreviate ==
    /\ \/ AbbreviateName
       \/ AbbreviateAgain
    /\ UNCHANGED plugin

SpecAbbreviate == InitAbbreviate /\ [][NextAbbreviate]_vars

\* The leaders of one team of a live football game: the boxscore fetch
\* succeeds or fails, and the source lists any athletes.
InitFootball ==
    /\ league_rotation_order = <<>>
    /\ upstream = <<>>
    /\ current_league_index = 0
    /\ InitOrchestrator
    /\ pc_fetcher = "football"
    /\ args \in [league_key : {"nfl", "ncaaf"}, home_away : {"home", "away"},
                 boxscore : BOOLEAN]
    /\ scoreboard = None
    /\ returned = None
    /\ requests = 0
    /\ player_stats \in FootballStatistics
    /\ leaders = None

NextFootball ==
    /\ \/ ExtractBoxscoreFootballLeaders
       \/ ExtractFootballLeaders
    /\ UNCHANGED plugin

SpecFootball == InitFootball /\ [][NextFootball]_vars

\* The batches whose rendering is looked at: any game may fail to draw.
RenderBatches(league) ==
    UNION {{[i \in 1..n |-> [league |-> league, id |-> i, drawable |-> d[i]]] :
              d \in [1..n -> BOOLEAN]} : n \in 0..MaxCards}

\* A wrap tick of display() has swapped a batch in over the empty one and is
\* about to render it (line 353).
InitRender ==
    /\ \E i \in DOMAIN LeagueKeys :
          /\ league_rotation_order = <<LeagueKeys[i]>>
          /\ games_data \in RenderBatches(LeagueKeys[i])
          /\ upstream = [league \in {LeagueKeys[i]} |-> {Len(games_data)}]
    /\ current_league_index = 0
    /\ last_data_update = 1
    /\ needs_initial_update = FALSE
    /\ pending_games_data = None
    /\ pending_data_ready = FALSE
    /\ fetch_in_progress = FALSE
    /\ fetch_lock = MainThread
    /\ scroll_position = 0
    /\ total_scroll_width = DisplayWidth + ItemWidth
    /\ content_items = <<"placeholder">>
    /\ now = 1
    /\ pc_main = "d_render"
    /\ current_time = 1
    /\ time_since_update = 0
    /\ pc_bg = [t \in BgThreads |-> "none"]
    /\ bg_live_games = [t \in BgThreads |-> <<>>]
    /\ log_cond = [t \in BgThreads |-> FALSE]
    /\ fg = [t \in Threads |-> BlankFrame]
    /\ tick_games = Some(<<>>)
    /\ ready_reads = 1
    /\ sync_fetches = 1
    /\ FetcherIdle

NextRender == DisplayRender /\ UNCHANGED fetcher

SpecRender == InitRender /\ [][NextRender]_vars

\* The conference lists a team of the NCAA feed may carry.
ConferenceLists == {<<>>, <<"SEC">>, <<"big-sky">>, <<Null>>}

\* The events of a scoreboard whose teams list their conferences.
ConferenceEvents ==
    {[state |-> st,
      competitors |->
         <<[homeAway |-> "away", abbreviation |-> "Lal", score |-> "7",
            conferences |-> ac],
           [homeAway |-> "home", abbreviation |-> "NYK", score |-> "2",
            conferences |-> hc]>>] :
        st \in {"live", "final"}, ac \in ConferenceLists, hc \in ConferenceLists}

\* One call of fetch_live_games with or without power_conferences_only, on a
\* scoreboard whose teams list their conferences.
InitPower ==
    /\ league_rotation_order = <<>>
    /\ upstream = <<>>
    /\ current_league_index = 0
    /\ InitOrchestrator
    /\ pc_fetcher = "call"
    /\ args \in [league_key : {"ncaam", "nba", "mlb"},
                  max_games : 0..MaxEvents,
                  power_conferences_only : BOOLEAN,
                  favorite_teams : {<<>>},
                  favorite_team_expanded_stats : {FALSE}]
    /\ scoreboard \in {Some(b) : b \in UNION {[1..n -> ConferenceEvents] :
                                               n \in 0..MaxEvents}}
    /\ returned = None
    /\ requests = 0
    /\ player_stats = <<>>
    /\ leaders = None

SpecPower == InitPower /\ [][NextFetcher]_vars

TypeOK ==
    /\ current_league_index \in 0..(Len(LeagueKeys) - 1)
    /\ fetch_lock \in {LockFree} \cup Threads
    /\ pc_main \in {"idle", "sync_fetch", "u_read", "u_check", "d_lock",
                    "d_check", "d_swap", "d_clear", "d_unready", "d_render"}
    /\ \A t \in BgThreads :
          pc_bg[t] \in {"none", "b_fetch", "b_store", "b_ready", "b_stamp",
                        "b_log1", "b_log2", "b_except", "b_finally"}
    /\ now \in 1..MaxTime

\* ------------------------------------------------------------ properties
\* The background tasks that are running.
RunningTasks == {t \in BgThreads : pc_bg[t] # "none"}

\* C1 (swap-at-wrap): after the initial fetch the displayed batch changes only
\* on the step of a display() tick that detected a wrap and found a batch
\* pending, and on that step it becomes exactly the pending batch; no step of
\* a background task, and no other step of update() or display(), changes it.
SwapAtWrap ==
    [][(~needs_initial_update /\ games_data' # games_data)
         => /\ pc_main = "d_swap"
            /\ pc_main' = "d_clear"
            /\ tick_games # None
            /\ pending_data_ready
            /\ pending_games_data = Some(games_data')]_vars

\* A wrap tick has just replaced the displayed batch by a different batch that
\* a background fetch left pending while the scroll was under way.
SwapAtWrapWitness ==
    /\ ~needs_initial_update
    /\ pc_main = "d_clear"
    /\ tick_games # None
    /\ tick_games # Some(games_data)
    /\ pending_games_data = Some(games_data)

\* C2: at most one background fetch task is running, and one is running only
\* while _fetch_in_progress is true.
AtMostOneFetchInFlight ==
    /\ Cardinality(RunningTasks) <= 1
    /\ RunningTasks # {} => fetch_in_progress

\* update() reaches line 152 with the interval elapsed while a task is running:
\* only the in-flight flag keeps it from starting a second task.
AtMostOneFetchInFlightWitness ==
    /\ pc_main = "u_check"
    /\ time_since_update >= UpdateInterval
    /\ RunningTasks # {}

\* The statements of _background_fetch_data that read or write the pending
\* slot or the ready flag: lines 190, 191 and the two reads of line 197.
SlotStatements == {"b_store", "b_ready", "b_log1", "b_log2"}

\* C3: on a wrap tick with a batch pending, the displayed batch becomes the
\* pending batch, the slot is emptied and the ready flag cleared, the display
\* thread holding the mutex throughout; and while the swap is half done (after
\* line 346, before line 348 has run) no background task is at a statement
\* that reads or writes the pending slot or the ready flag.
SwapInOneCriticalSection ==
    /\ pc_main \in {"d_check", "d_swap", "d_clear", "d_unready", "d_render"}
          => fetch_lock = MainThread
    /\ pc_main = "d_clear"
          => pending_games_data = Some(games_data) /\ pending_data_ready
    /\ pc_main = "d_unready"
          => pending_games_data = None /\ pending_data_ready
    /\ pc_main = "d_render"
          => pending_games_data = None /\ ~pending_data_ready
    /\ pc_main \in {"d_clear", "d_unready"}
          => \A t \in BgThreads : pc_bg[t] \notin SlotStatements

\* Every feed reports one fixed number of live games.
FeedsFrozen == \A league \in DOMAIN upstream : Cardinality(upstream[league]) = 1

\* The league's feed reports live games.
HasLiveGames(league) == upstream[league] \cap (1..MaxGames) # {}

\* The index k places after start in rotation order.
RotationIndex(start, k) == (start + k) % Len(league_rotation_order)

\* The index of the first league with live games, in rotation order from start.
FirstLiveIndex(start) ==
    LET k == CHOOSE k \in 0..(Len(league_rotation_order) - 1) :
                /\ HasLiveGames(league_rotation_order[RotationIndex(start, k) + 1])
                /\ \A j \in 0..(k - 1) :
                      ~HasLiveGames(league_rotation_order[RotationIndex(start, j) + 1])
    IN RotationIndex(start, k)

\* C4 (league rotation result), for feeds that do not change during the call:
\* when some league of the rotation has live games, _fetch_games returns the
\* games of the first such league in rotation order from the index it started
\* at, wrapping, and current_league_index is that league's index.
RotationResult ==
    \A t \in Threads :
       (/\ fg[t].pc = "ret"
        /\ FeedsFrozen
        /\ \E league \in DOMAIN upstream : HasLiveGames(league))
       => LET first == FirstLiveIndex(fg[t].start)
          IN /\ current_league_index = first
             /\ fetch_live_games(league_rotation_order[first + 1])
                   = {fg[t].live_games}

\* _fetch_games returns live games after rotating past the end of the list.
RotationResultWitness ==
    \E t \in Threads :
       /\ fg[t].pc = "ret"
       /\ FeedsFrozen
       /\ fg[t].live_games # <<>>
       /\ current_league_index < fg[t].start

\* C5: within one call of _fetch_games no league is fetched twice, and a call
\* that finds every league empty has fetched every league and returns [].
EachLeagueFetchedAtMostOnce ==
    \A t \in Threads :
       /\ \A i, j \in DOMAIN fg[t].calls :
             i # j => fg[t].calls[i] # fg[t].calls[j]
       /\ (fg[t].pc = "ret" /\ fg[t].live_games = <<>>)
             => {fg[t].calls[i] : i \in DOMAIN fg[t].calls}
                   = {league_rotation_order[i] : i \in DOMAIN league_rotation_order}

\* C6 (initial transition): the step that leaves NeedsInitialFetch is the end
\* of the one synchronous _fetch_games run by update(), and it sets the
\* displayed batch to that call's result; once update() has returned from its
\* first call the state is left, games or no games; and from then on
\* needs_initial_update stays false and no _fetch_games runs on the calling
\* thread.
InitialTransition ==
    /\ [][(needs_initial_update /\ ~needs_initial_update')
            => /\ pc_main = "sync_fetch"
               /\ fg[MainThread].pc = "ret"
               /\ sync_fetches = 1
               /\ games_data' = fg[MainThread].live_games]_vars
    /\ [][~needs_initial_update
            => /\ ~needs_initial_update'
               /\ fg'[MainThread].pc = "none"
               /\ sync_fetches' = sync_fetches]_vars
    /\ [](sync_fetches <= 1)
    /\ []((pc_main = "idle" /\ sync_fetches > 0) => ~needs_initial_update)

\* The first update() has returned without finding a game in any league.
InitialTransitionWitness ==
    /\ pc_main = "idle"
    /\ league_rotation_order # <<>>
    /\ sync_fetches = 1
    /\ ~needs_initial_update
    /\ games_data = <<>>

\* C7: after the initial fetch, the update() call that reaches line 152 starts
\* a background fetch exactly when the time from the last fetch timestamp to
\* the call's clock reading is at least update_interval and no fetch is in
\* flight; otherwise it changes no orchestrator state; and it never runs
\* _fetch_games on the calling thread.
UpdateStartsFetchIffDue ==
    [][(pc_main = "u_check" /\ pc_main' = "idle")
         => LET started == pc_bg' # pc_bg
                due == /\ current_time - last_data_update >= UpdateInterval
                       /\ ~fetch_in_progress
            IN /\ started <=> due
               /\ ~started => UNCHANGED orchestrator
               /\ fg'[MainThread].pc = "none"]_vars

\* C8: a background task never touches the displayed batch; its hand-off puts
\* its result in the pending slot and sets the ready flag; when it ends the
\* in-flight flag is clear; and every started fetch does end: whenever the
\* flag is set it is eventually cleared.
BackgroundFetchReturnsToIdle ==
    /\ [][\A t \in BgThreads :
            /\ (pc_bg[t] # "none" /\ pc_bg'[t] # pc_bg[t])
                  => games_data' = games_data
            /\ (pc_bg[t] = "b_store" /\ pc_bg'[t] # "b_store")
                  => pending_games_data' = Some(bg_live_games[t])
            /\ (pc_bg[t] = "b_ready" /\ pc_bg'[t] # "b_ready")
                  => pending_data_ready'
            /\ (pc_bg[t] # "none" /\ pc_bg'[t] = "none")
                  => ~fetch_in_progress']_vars
    /\ (fetch_in_progress ~> ~fetch_in_progress)

\* A background fetch has ended, leaving its batch pending and the plugin idle.
BackgroundFetchReturnsToIdleWitness ==
    /\ RunningTasks = {}
    /\ ~fetch_in_progress
    /\ pending_data_ready
    /\ pending_games_data # None
    /\ pc_main = "idle"

\* The fields each thread's next statement reads or writes.
Read(var) == [var |-> var, write |-> FALSE]
Write(var) == [var |-> var, write |-> TRUE]

FetchGamesAccesses(t) ==
    IF fg[t].pc = "first" THEN {Read("current_league_index")}
    ELSE IF fg[t].pc = "loop" THEN {Write("current_league_index")}
    ELSE {}

MainAccesses ==
    CASE pc_main = "idle" -> {Read("needs_initial_update")}
      [] pc_main = "sync_fetch" ->
            IF fg[MainThread].pc = "ret"
            THEN {Write("games_data"), Write("last_data_update"),
                  Write("needs_initial_update")}
            ELSE FetchGamesAccesses(MainThread)
      [] pc_main = "u_read" -> {Read("last_data_update")}
      [] pc_main = "u_check" -> {Write("fetch_in_progress")}
      [] pc_main = "d_check" -> {Read("pending_data_ready")}
      [] pc_main = "d_swap" -> {Write("games_data"), Read("pending_games_data")}
      [] pc_main = "d_clear" -> {Write("pending_games_data")}
      [] pc_main = "d_unready" -> {Write("pending_data_ready")}
      [] pc_main = "d_render" -> {Read("games_data")}
      [] OTHER -> {}

BgAccesses(t) ==
    CASE pc_bg[t] = "b_fetch" -> FetchGamesAccesses(t)
      [] pc_bg[t] = "b_store" -> {Write("pending_games_data")}
      [] pc_bg[t] = "b_ready" -> {Write("pending_data_ready")}
      [] pc_bg[t] = "b_stamp" -> {Write("last_data_update")}
      [] pc_bg[t] \in {"b_log1", "b_log2"} -> {Read("pending_games_data")}
      [] pc_bg[t] = "b_finally" -> {Write("fetch_in_progress")}
      [] OTHER -> {}

\* The two threads are both about to access the field, one of them writing.
RaceOn(var) ==
    \E t \in BgThreads : \E a \in MainAccesses, b \in BgAccesses(t) :
       /\ a.var = var
       /\ b.var = var
       /\ a.write \/ b.write

HandOffFields == {"pending_games_data", "pending_data_ready"}

\* C9: the display thread and a background task never access at the same time
\* a field other than the pending slot, the ready flag and the in-flight flag
\* (one of them writing), and each access to the pending slot or the ready
\* flag is made holding the mutex.
OnlyHandOffStateIsShared ==
    /\ \A var \in {"games_data", "last_data_update", "current_league_index",
                   "needs_initial_update"} : ~RaceOn(var)
    /\ \A a \in MainAccesses : a.var \in HandOffFields => fetch_lock = MainThread
    /\ \A t \in BgThreads : \A b \in BgAccesses(t) :
          b.var \in HandOffFields => fetch_lock = t

\* C10: a background task holds the mutex only for the hand-off (lines
\* 190-191), never while _fetch_games runs; display() reads the ready flag at
\* most once per tick; and a tick waiting at line 344 finds the mutex free
\* whenever the tasks, if any, are still fetching.
DisplayNeverWaitsOnFetch ==
    /\ \A t \in BgThreads :
          fetch_lock = t => pc_bg[t] \in {"b_store", "b_ready"} /\ fg[t].pc = "none"
    /\ ready_reads <= 1
    /\ (pc_main = "d_lock" /\ \A t \in BgThreads : pc_bg[t] \in {"none", "b_fetch"})
          => fetch_lock = LockFree

\* display() is inside its critical section, reading the ready flag, while a
\* background task is in the middle of _fetch_games.
DisplayNeverWaitsOnFetchWitness ==
    /\ pc_main = "d_check"
    /\ \E t \in BgThreads : pc_bg[t] = "b_fetch" /\ fg[t].pc \in {"first", "loop"}

\* C11 (total failure yields an empty display): a _fetch_games call in which
\* every league failed or reported nothing returns []; the initial fetch then
\* sets the displayed batch to [] and renders the placeholder; a background
\* task then stores [] as the pending batch, and the wrap tick that finds it
\* makes the displayed batch [], whatever was displayed, and renders the
\* placeholder; has_live_content() is false whenever the placeholder is what
\* update() or display() left on the scroller.
EmptyDisplayOnTotalFailure ==
    /\ [][(/\ pc_main = "sync_fetch"
           /\ fg[MainThread].pc = "ret"
           /\ fg[MainThread].live_games = <<>>
           /\ pc_main' = "idle")
            => /\ games_data' = <<>>
               /\ content_items' = <<"placeholder">>
               /\ ~has_live_content']_vars
    /\ [][\A t \in BgThreads :
            (/\ pc_bg[t] = "b_store"
             /\ bg_live_games[t] = <<>>
             /\ pc_bg'[t] = "b_ready")
              => pending_games_data' = Some(<<>>)]_vars
    /\ [][(/\ pc_main = "d_swap"
           /\ pending_games_data = Some(<<>>)
           /\ pc_main' = "d_clear")
            => games_data' = <<>>]_vars
    /\ [][(pc_main = "d_render" /\ games_data = <<>> /\ pc_main' = "idle")
            => content_items' = <<"placeholder">> /\ ~has_live_content']_vars
    /\ [](pc_main = "idle" /\ content_items = <<"placeholder">>
            => ~has_live_content)

\* A wrap tick has replaced a displayed batch of live games by the empty batch
\* a background fetch left pending.
EmptyDisplayOnTotalFailureWitness ==
    /\ pc_main = "d_render"
    /\ tick_games # None
    /\ tick_games # Some(<<>>)
    /\ content_items = <<"card">>
    /\ games_data = <<>>

\* C12 (a failed league does not affect rotation), for feeds that keep
\* failing or reporting the same games during the call: a fetch_live_games
\* call that fails hands _fetch_games [], and _fetch_games goes on with the
\* leagues that follow in rotation order: the leagues it has fetched are the
\* rotation order from its starting index, every league before the last one
\* fetched failed or had no live games, and it returns [] only after it has
\* fetched every league.
FailedLeagueIsSkipped ==
    \A t \in Threads :
       fg[t].pc \in {"loop", "ret"} =>
          LET calls == fg[t].calls
              last == calls[Len(calls)]
          IN /\ \A i \in DOMAIN calls :
                   calls[i] = league_rotation_order[
                                 RotationIndex(fg[t].start, i - 1) + 1]
             /\ \A i \in 1..(Len(calls) - 1) : ~HasLiveGames(calls[i])
             /\ upstream[last] = {FeedError} => fg[t].live_games = <<>>
             /\ HasLiveGames(last) => fg[t].live_games # <<>> /\ fg[t].pc = "ret"
             /\ (fg[t].pc = "ret" /\ fg[t].live_games = <<>>)
                   => \A i \in DOMAIN league_rotation_order :
                         \E j \in DOMAIN calls : calls[j] = league_rotation_order[i]

\* _fetch_games has returned the live games of a league it reached after the
\* fetch of the league before it had failed.
FailedLeagueIsSkippedWitness ==
    \E t \in Threads :
       /\ fg[t].pc = "ret"
       /\ fg[t].live_games # <<>>
       /\ Len(fg[t].calls) >= 2
       /\ upstream[fg[t].calls[1]] = {FeedError}

\* ------------------------------------------- properties of fetch_live_games
\* The call of fetch_live_games has returned.
FetcherDone == pc_fetcher = "done"

\* The events of the scoreboard the feed answered with.
Events == CHOOSE b \in scoreboard : TRUE

\* The list fetch_live_games returned.
Result == CHOOSE r \in returned : TRUE

\* The in-progress state of the feed the call reads.
LiveSentinel == IF args.league_key = "ncaam" THEN "live" ELSE "in"

\* The ids of the in-progress events, in the order the feed lists them.
LiveIds ==
    SelectSeq([i \in 1..Len(Events) |-> i],
              LAMBDA i : Events[i].state = LiveSentinel)

\* The ids of the records of a list, in order.
Ids(games) == [k \in DOMAIN games |-> games[k].id]

Min(a, b) == IF a < b THEN a ELSE b

\* Every event of the scoreboard lists its home and its away team.
BothTeamsListed == \A i \in DOMAIN Events : Len(Events[i].competitors) = 2

\* C13, for scoreboards whose events all list both teams: for an ESPN league,
\* when max_games does not bind, fetch_live_games returns exactly one
\* GameRecord for each event whose state is "in", in the feed's order, and
\* none for any other event.
OneRecordPerLiveEvent ==
    (/\ FetcherDone
     /\ args.league_key \in {"nba", "nfl", "ncaaf"}
     /\ scoreboard # None
     /\ BothTeamsListed
     /\ args.max_games >= Len(Events))
    => Ids(Result) = LiveIds

\* C14 (max_games truncation), with no favorite teams configured and for
\* scoreboards whose events all list both teams: when the feed lists L
\* in-progress events, fetch_live_games returns exactly min(max_games, L)
\* GameRecords, those of the first min(max_games, L) in-progress events in
\* the feed's order.
MaxGamesTruncation ==
    (/\ FetcherDone
     /\ args.league_key \in {"nba", "nfl", "ncaam", "ncaaf"}
     /\ scoreboard # None
     /\ BothTeamsListed
     /\ args.favorite_teams = <<>>)
    => Ids(Result) = SubSeq(LiveIds, 1, Min(args.max_games, Len(LiveIds)))

\* C17: in every GameRecord fetch_live_games returns, from the ESPN path or
\* the NCAA path, expanded_stats is true only if is_favorite is true and the
\* configured favorite_team_expanded_stats flag is true.
ExpandedStatsOnlyForFavorites ==
    FetcherDone =>
       \A k \in DOMAIN Result :
          Result[k].expanded_stats
             => Result[k].is_favorite /\ args.favorite_team_expanded_stats

\* A returned list holds a record with expanded stats and, the flag being
\* set, one without.
ExpandedStatsOnlyForFavoritesWitness ==
    /\ FetcherDone
    /\ args.favorite_team_expanded_stats
    /\ \E k, j \in DOMAIN Result :
          Result[k].expanded_stats /\ ~Result[j].expanded_stats

\* The event lists a favorite team, whatever the case of the letters.
InvolvesFavorite(event) ==
    \E i \in DOMAIN event.competitors :
       InFavorites(event.competitors[i].abbreviation, args.favorite_teams)

UnknownLeagueYieldsEmpty ==
    (FetcherDone /\ args.league_key \notin {"nba", "nfl", "ncaam", "ncaaf"})
       => returned = Some(<<>>) /\ requests = 0

\* The call with an unknown key has returned while the feed had an
\* in-progress game to offer.
UnknownLeagueYieldsEmptyWitness ==
    /\ FetcherDone
    /\ args.league_key = "mlb"
    /\ args.max_games > 0
    /\ scoreboard # None
    /\ \E i \in DOMAIN Events : Events[i].state \in {"in", "live"}

\* The score the specification gives a team: its number, and 0 when the score
\* is missing or is not a number.
CoercedScore(team) ==
    IF team.score \in DOMAIN IntValue THEN IntValue[team.score] ELSE 0

\* C20 (score coercion), with no favorite teams configured and max_games not
\* binding: every in-progress event that lists its home and its away team
\* yields a GameRecord, whose home_score and away_score are the teams' scores
\* with 0 for a missing or non-numeric one; and every score of every record
\* returned is a non-negative integer.
ScoreCoercion ==
    (/\ FetcherDone
     /\ args.league_key \in {"nba", "nfl", "ncaam", "ncaaf"}
     /\ scoreboard # None
     /\ args.favorite_teams = <<>>
     /\ args.max_games >= Len(Events))
    => /\ \A i \in DOMAIN Events :
             (Events[i].state = LiveSentinel /\ Len(Events[i].competitors) = 2)
                => \E k \in DOMAIN Result :
                      /\ Result[k].id = i
                      /\ Result[k].away_score
                            = CoercedScore(Events[i].competitors[1])
                      /\ Result[k].home_score
                            = CoercedScore(Events[i].competitors[2])
       /\ \A k \in DOMAIN Result :
             Result[k].home_score \in Nat /\ Result[k].away_score \in Nat

\* ------------------------------------------ properties of leader extraction
\* The leaders dict the extraction returned.
LeaderSet == CHOOSE l \in leaders : TRUE

\* C15: in a LeaderSet returned by the NCAA extraction or by the ESPN boxscore
\* extraction, no category holds an empty list and every entry of every
\* category has a value above 0.
LeaderValuesPositive ==
    (pc_fetcher \in {"ncaa", "espn"} /\ leaders # None) =>
       \A cat \in DOMAIN LeaderSet :
          /\ LeaderSet[cat] # <<>>
          /\ \A k \in DOMAIN LeaderSet[cat] : LeaderSet[cat][k].value > 0

\* The players the NCAA extraction ranks in a category: those whose points,
\* rebounds and assists are numbers or missing and, for steals and blocks,
\* whose steals and blocks are too; the others are skipped as malformed.
RankedPlayers(cat) ==
    {i \in DOMAIN player_stats :
       /\ \A c \in BasicCategories : ~StatRaises(StatRaw(player_stats[i], c))
       /\ cat \in ExpandedCategories =>
             \A c \in ExpandedCategories :
                ~StatRaises(StatRaw(player_stats[i], c))}

StatsRead ==
    IF pc_fetcher = "espn" \/ args.expanded_stats
    THEN BasicCategories \cup ExpandedCategories
    ELSE BasicCategories

\* The players with a non-numeric value in a stat the extraction reads.
MalformedPlayers ==
    {i \in DOMAIN player_stats :
       \E c \in StatsRead : StatRaises(StatRaw(player_stats[i], c))}

\* The input without its malformed players.
WithoutMalformed ==
    SelectSeq(player_stats, LAMBDA p : p.name \notin MalformedPlayers)

\* The extraction that ran, on another player list.
ExtractionOf(players) ==
    IF pc_fetcher = "ncaa"
    THEN _extract_ncaa_basketball_leaders(players, args.expanded_stats)
    ELSE _extract_boxscore_basketball_leaders(players, args.expanded_stats)

\* The leaders of a category that have a value above 0 and are not malformed
\* players, in the order of the result.
ValidLeaders(result, cat) ==
    IF result = None THEN <<>>
    ELSE LET set == CHOOSE l \in result : TRUE
         IN IF cat \notin DOMAIN set THEN <<>>
            ELSE SelectSeq(set[cat],
                           LAMBDA x : x.value > 0
                                      /\ x.name \notin MalformedPlayers)

\* C21: after either basketball extraction, in every category the leaders
\* with a value above 0 chosen among the players that are not malformed are
\* those the extraction chooses when the malformed players are left out of
\* the input.
MalformedPlayersDoNotDisturb ==
    pc_fetcher \in {"ncaa", "espn"} =>
       \A cat \in BasicCategories \cup ExpandedCategories :
          ValidLeaders(leaders, cat)
             = ValidLeaders(ExtractionOf(WithoutMalformed), cat)

\* ------------------------------------------------ properties of the names
\* The name _abbreviate_name was called with, and what it returned.
FullName == args.full_name

Abbreviated == CHOOSE name \in returned : TRUE

\* The positions of the characters of the name that are not spaces.
Inked == {i \in DOMAIN FullName : FullName[i] # " "}

FirstInked == CHOOSE i \in Inked : \A j \in Inked : i <= j

LastInked == CHOOSE i \in Inked : \A j \in Inked : j <= i

\* Where the last word of the name starts.
LastWordStart ==
    CHOOSE i \in Inked :
       /\ \A j \in i..LastInked : j \in Inked
       /\ i = 1 \/ FullName[i - 1] = " "

LastWord == SubSeq(FullName, LastWordStart, LastInked)

\* C24: _abbreviate_name returns a name of one word and at most 10 characters
\* unchanged; of a name of two or more words it returns the last word if
\* that has at most 8 characters, and else the first initial, ". " and the
\* last word; called on its own output it returns that output.
AbbreviateNameCases ==
    /\ (pc_fetcher = "abbreviated" /\ Inked # {}) =>
          /\ (LastWordStart = FirstInked /\ Len(FullName) <= 10)
                => Abbreviated = FullName
          /\ (LastWordStart > FirstInked /\ Len(LastWord) <= 8)
                => Abbreviated = LastWord
          /\ (LastWordStart > FirstInked /\ Len(LastWord) > 8)
                => Abbreviated
                      = <<FullName[FirstInked], ".", " ">> \o LastWord
    /\ pc_fetcher = "again" => Abbreviated = FullName

\* The name "b aaaaaaaaa" was abbreviated to "b. aaaaaaaaa", and that output
\* was abbreviated again.
AbbreviateNameCasesWitness ==
    /\ pc_fetcher = "again"
    /\ Len(FullName) = 12
    /\ FullName[1] = "b"
    /\ FullName[2] = "."
    /\ Abbreviated = FullName

\* -------------------------------------- properties of the football leaders
\* C22: when the boxscore fetch of a live football game succeeded and the
\* boxscore lists passing, receiving and rushing athletes, the leaders of the
\* team hold the first athlete of each list, with the stats string
\* "<yards> YDS, <touchdowns> TD".
FootballBoxscoreLeaders ==
    (/\ pc_fetcher = "football_done"
     /\ args.boxscore
     /\ \A sec \in {"passing", "receiving", "rushing"} :
           /\ player_stats[sec] # <<>>
           /\ Len(player_stats[sec][1].stats) >= 4)
    => /\ leaders # None
       /\ DOMAIN LeaderSet = {"QB", "WR", "RB"}
       /\ LeaderSet["QB"].stats = <<player_stats.passing[1].stats[3], " YDS, ",
                                    player_stats.passing[1].stats[4], " TD">>
       /\ LeaderSet["WR"].stats = <<player_stats.receiving[1].stats[2], " YDS, ",
                                    player_stats.receiving[1].stats[4], " TD">>
       /\ LeaderSet["RB"].stats = <<player_stats.rushing[1].stats[2], " YDS, ",
                                    player_stats.rushing[1].stats[4], " TD">>

\* ------------------------------------------------ properties of the render
\* The games of the displayed batch whose card draws without error.
DrawnGames == {i \in DOMAIN games_data : games_data[i].drawable}

\* C23: once a batch of games is rendered, no content item is a substitute
\* for a card that failed, and when some card drew without error the content
\* items are as many as the games whose card did.
FailedCardsAreOmitted ==
    (pc_main = "idle" /\ games_data # <<>>) =>
       /\ \A k \in DOMAIN content_items : content_items[k] # "error_card"
       /\ DrawnGames # {} => Len(content_items) = Cardinality(DrawnGames)

\* ------------------------------------ properties of the conference filter
\* The conference membership of a game cannot be determined: an entry whose
\* slug is null comes before any power conference, away team first.
Undetermined(game) ==
    LET listed == game.competitors[1].conferences
                     \o game.competitors[2].conferences
    IN \E j \in DOMAIN listed :
          /\ listed[j] = Null
          /\ \A m \in 1..(j - 1) : listed[m] \notin {"SEC", "sec"}

\* C25: with power_conferences_only set and the limit not binding, every
\* live game of the NCAA scoreboard whose conference membership cannot be
\* determined has its record in the result.
UndeterminedConferenceIsKept ==
    (/\ FetcherDone
     /\ args.league_key = "ncaam"
     /\ args.power_conferences_only
     /\ args.max_games >= Len(Events))
    => \A i \in DOMAIN Events :
          (Events[i].state = "live" /\ Undetermined(Events[i]))
             => \E k \in DOMAIN Result : Result[k].id = i

\* ------------------------------------------------ properties of the hand-off
\* C26: with display ticks that keep occurring, whenever the ready flag is
\* set it is eventually cleared, and whenever a batch is pending with the
\* flag set, a wrap tick eventually makes the batch then pending (that
\* fetch's or a later one's) the displayed batch.
PendingBatchIsDisplayed ==
    /\ pending_data_ready ~> ~pending_data_ready
    /\ (pending_data_ready /\ pending_games_data # None)
          ~> (pc_main = "d_clear" /\ pending_games_data = Some(games_data))

\* A wrap tick has cleared the flag after swapping in a batch that differs
\* from the one displayed before.
PendingBatchIsDisplayedWitness ==
    /\ pc_main = "d_render"
    /\ ~pending_data_ready
    /\ pending_games_data = None
    /\ tick_games # None
    /\ tick_games # Some(games_data)

\* C27: the pending slot holds the batch of the latest hand-off: the hand-off
\* of a background fetch puts its batch in the slot whatever the slot held,
\* nothing else changes the slot but the wrap tick that empties it, and the
\* batch a wrap tick applies is the one the slot holds.
LatestBatchWins ==
    [][/\ \A t \in BgThreads :
             (pc_bg[t] = "b_store" /\ pc_bg'[t] = "b_ready")
                => pending_games_data' = Some(bg_live_games[t])
       /\ pending_games_data' # pending_games_data
             => \/ \E t \in BgThreads :
                      pc_bg[t] = "b_store" /\ pc_bg'[t] = "b_ready"
                \/ /\ pc_main = "d_clear"
                   /\ pc_main' = "d_unready"
                   /\ pending_games_data' = None
       /\ (pc_main = "d_swap" /\ pc_main' = "d_clear")
             => /\ pending_games_data # None
                /\ pending_games_data = Some(games_data')]_vars

\* A background fetch has put its batch in the slot while the flag of an
\* earlier batch, not yet applied, was still set.
LatestBatchWinsWitness ==
    \E t \in BgThreads :
       /\ pc_bg[t] = "b_ready"
       /\ pending_data_ready
       /\ pending_games_data = Some(bg_live_games[t])

\* ------------------------------------------------ properties of the rotation
\* The threads inside a call of _fetch_games.
InFetchGames == {t \in Threads : fg[t].pc # "none"}

\* The fields a thread's next statement reads or writes.
Accesses(t) == IF t = MainThread THEN MainAccesses ELSE BgAccesses(t)

\* C28: at most one thread is inside _fetch_games, either update() on its
\* first call or the one background task; no two threads are about to read
\* or write current_league_index at the same time; and the index is a
\* position of the rotation order.
FetchGamesRunsAlone ==
    /\ Cardinality(InFetchGames) <= 1
    /\ MainThread \in InFetchGames
          => needs_initial_update /\ pc_main = "sync_fetch" /\ RunningTasks = {}
    /\ \A t \in InFetchGames \cap BgThreads :
          pc_bg[t] = "b_fetch" /\ fetch_in_progress /\ ~needs_initial_update
    /\ \A t, u \in Threads :
          t # u => ~ \E a \in Accesses(t), b \in Accesses(u) :
                        a.var = "current_league_index"
                           /\ b.var = "current_league_index"
    /\ league_rotation_order # <<>>
          => current_league_index \in 0..(Len(league_rotation_order) - 1)

\* A background task's _fetch_games has moved the index from its start to the
\* last position of the rotation and returned.
FetchGamesRunsAloneWitness ==
    \E t \in BgThreads :
       /\ pc_bg[t] = "b_fetch"
       /\ fg[t].pc = "ret"
       /\ fg[t].start # current_league_index
       /\ current_league_index = Len(league_rotation_order) - 1

\* ------------------------------------------- properties of a failed fetch
\* The shared fields a background task has written since it started: the
\* slot at line 190, the flag at line 191, the timestamp at line 193.
WrittenBy(t) ==
    CASE pc_bg[t] \in {"none", "b_fetch", "b_store"} -> {}
      [] pc_bg[t] = "b_ready" -> {"pending_games_data"}
      [] pc_bg[t] = "b_stamp" -> {"pending_games_data", "pending_data_ready"}
      [] OTHER -> {"pending_games_data", "pending_data_ready",
                   "last_data_update"}

\* C29: a background task that has failed with an exception (it is in the
\* except clause of line 199) has written none of the displayed batch, the
\* pending slot, the ready flag and the timestamp, and the in-flight flag is
\* still to be cleared by its finally clause.
FailedFetchLeavesNoTrace ==
    \A t \in BgThreads :
       pc_bg[t] = "b_except" => WrittenBy(t) = {} /\ fetch_in_progress

\* C30 (the rotation is sticky), for feeds that do not change during the
\* call: when the league at the index _fetch_games started at has live games,
\* the call returns them after one call of fetch_live_games, for that league,
\* and current_league_index is still that index.
StickyRotation ==
    \A t \in Threads :
       (/\ fg[t].pc = "ret"
        /\ FeedsFrozen
        /\ HasLiveGames(league_rotation_order[fg[t].start + 1]))
       => /\ fg[t].calls = <<league_rotation_order[fg[t].start + 1]>>
          /\ current_league_index = fg[t].start
          /\ fetch_live_games(league_rotation_order[fg[t].start + 1])
                = {fg[t].live_games}

\* _fetch_games has returned the games of a league that is not the first of
\* the rotation, without asking the first, which has live games too.
StickyRotationWitness ==
    \E t \in Threads :
       /\ fg[t].pc = "ret"
       /\ FeedsFrozen
       /\ fg[t].start > 0
       /\ current_league_index = fg[t].start
       /\ Len(fg[t].calls) = 1
       /\ fg[t].live_games # <<>>
       /\ HasLiveGames(league_rotation_order[1])

====
